---- MODULE Spec2Model ----
(***************************************************************************)
(* Model of js/src/errorHandling.ts: safe indexed access, the two greeting *)
(* functions (EAFP and LBYL) and the two asynchronous quotation workflows. *)
(*                                                                         *)
(* JavaScript values are records [t |-> type tag, v |-> payload].  The     *)
(* outcome of a synchronous call is [kind |-> "return" | "throw", value];  *)
(* the outcome of a promise is [kind |-> "resolve" | "reject", value].     *)
(***************************************************************************)
EXTENDS Integers, Sequences, FiniteSets, TLC

\* ------------------------------------------------------------------ bounds
MaxListLen == 3
MaxNum == 2
MaxNameLen == 3
NumInv == 2
AgeSpan == 1

\* ------------------------------------------------------- program constants
AgeLimit == 30
YoungPremium == 500
StandardPremium == 300
DefaultPremium == 0

\* --------------------------------------------------------------- JS values
Undefined == [t |-> "undefined", v |-> 0]
Null == [t |-> "null", v |-> 0]
Num(n) == [t |-> "number", v |-> n]
Str(s) == [t |-> "string", v |-> s]
TypeError == [t |-> "error", v |-> 0]

Return(x) == [kind |-> "return", value |-> x]
Throw(e) == [kind |-> "throw", value |-> e]
NotCalled == [kind |-> "none", value |-> Undefined]

\* ramda's isNil: true for null and undefined only.
isNil(x) == x.t \in {"undefined", "null"}

\* ================================================================ squareOfSecondElement
Nums == (0 - MaxNum)..MaxNum
Lists == UNION {[1..n -> Nums] : n \in 0..MaxListLen}

\* list[1] in JavaScript (zero-based): the second element, or undefined when
\* the index is past the end.
\* (ElementAt1_first: the off-by-one variant reading index 0.)
ElementAt1_first(l) == IF Len(l) >= 1 THEN Num(l[1]) ELSE Undefined
ElementAt1(l) == IF Len(l) >= 2 THEN Num(l[2]) ELSE Undefined

squareOfSecondElement(l) ==
    LET i == ElementAt1(l)
    IN  IF isNil(i) THEN Return(Num(0)) ELSE Return(Num(i.v * i.v))

\* ================================================================ greetings
Space == " "
Chars == {"J", "W", Space, "\t"}
Hi == <<"H", "i", Space>>
Names == UNION {[1..n -> Chars] : n \in 0..MaxNameLen}

\* A user value: undefined, null, or an object that may carry a name property
\* of any type (has = FALSE: the property is missing).
NameValues == {Null, Num(42)} \cup {Str(s) : s \in Names}
Users == {Undefined, Null}
         \cup {[t |-> "object", has |-> FALSE, name |-> Undefined]}
         \cup {[t |-> "object", has |-> TRUE, name |-> n] : n \in NameValues}

\* user.name: a TypeError on null/undefined, undefined for a missing property.
GetName(u) ==
    IF u.t \in {"undefined", "null"} THEN Throw(TypeError)
    ELSE IF u.has THEN Return(u.name) ELSE Return(Undefined)

IndexOf(s, c) ==
    IF \E k \in 1..Len(s) : s[k] = c
    THEN CHOOSE k \in 1..Len(s) : s[k] = c /\ \A j \in 1..(k - 1) : s[j] # c
    ELSE 0

\* String.prototype.split with a one-character separator.
RECURSIVE Split(_, _)
Split(s, sep) ==
    LET k == IndexOf(s, sep)
    IN  IF k = 0 THEN <<s>>
        ELSE <<SubSeq(s, 1, k - 1)>> \o Split(SubSeq(s, k + 1, Len(s)), sep)

\* name.split(' ')[0]: a TypeError when name is null/undefined (property read
\* on nil) or not a string (split is not a function).  The first definition
\* is the variant that forgets the split.
SplitFirst_wholeName(n) ==
    IF n.t # "string" THEN Throw(TypeError) ELSE Return(Str(n.v))
SplitFirst(n) ==
    IF n.t # "string" THEN Throw(TypeError)
    ELSE Return(Str(Split(n.v, Space)[1]))

\* 'Hi ' + user.name.split(' ')[0]
GreetExpr(u) ==
    LET n == GetName(u)
    IN  IF n.kind = "throw" THEN n
        ELSE LET f == SplitFirst(n.value)
             IN  IF f.kind = "throw" THEN f
                 ELSE Return(Str(Hi \o f.value.v))

\* EAFP: try { return GreetExpr } catch { return 'Hi ' }
getGreeting(u) ==
    LET r == GreetExpr(u)
    IN  IF r.kind = "throw" THEN Return(Str(Hi)) ELSE r

\* LBYL: const name = user.name; isNil(name) ? 'Hi ' : GreetExpr
getGreeting1(u) ==
    LET n == GetName(u)
    IN  IF n.kind = "throw" THEN n
        ELSE IF isNil(n.value) THEN Return(Str(Hi))
        ELSE GreetExpr(u)

\* ================================================================ quotations
Inv == 1..NumInv
Emails == {"john.w@gmail.com", "jane.d@gmail.com"}
\* The identifier the caller of invocation i passes as userEmail.
userEmail(i) == IF i % 2 = 1 THEN "john.w@gmail.com" ELSE "jane.d@gmail.com"
Ages == {0} \cup ((AgeLimit - AgeSpan)..(AgeLimit + AgeSpan))
UserServiceErrors == {"USER-NOT-FOUND", "SERVICE-NOT-AVAILABLE"}
Reasons == {"Timeout Error", "SERVICE-NOT-AVAILABLE"}

\* Values a lookup can deliver, and errors it can fail with.
DetailsV(a) == [t |-> "details", age |-> a, err |-> "none"]
RightV(a) == [t |-> "right", age |-> a, err |-> "none"]
LeftV(e) == [t |-> "left", age |-> 0, err |-> e]
UndefV == [t |-> "undefined", age |-> 0, err |-> "none"]
ErrV(e) == [t |-> "error", age |-> 0, err |-> e]

NoPromise == [kind |-> "none", value |-> UndefV]
Pending == [kind |-> "pending", value |-> UndefV]
Resolved(x) == [kind |-> "resolve", value |-> x]
Rejected(e) == [kind |-> "reject", value |-> ErrV(e)]
Threw(e) == [kind |-> "throw", value |-> ErrV(e)]

\* The promise returned by an async function: resolved with a premium, or
\* rejected with an error and no premium.
Unsettled == [kind |-> "pending", premium |-> <<>>, err |-> "none"]
ResolveWith(n) == [kind |-> "resolve", premium |-> <<n>>, err |-> "none"]
RejectWith(e) == [kind |-> "reject", premium |-> <<>>, err |-> e]

\* What the injected lookup may settle to.  Variant 1 is typed any: user
\* details, undefined, or a rejection.  Variant 2 is typed to resolve to an
\* Either, but nothing stops a caller's lookup from rejecting or resolving to
\* undefined.
SettleOutcomes(v) ==
    IF v = 1
    THEN {Resolved(DetailsV(a)) : a \in Ages} \cup {Resolved(UndefV)}
         \cup {Rejected(e) : e \in Reasons}
    ELSE {Resolved(RightV(a)) : a \in Ages}
         \cup {Resolved(LeftV(e)) : e \in UserServiceErrors}
         \cup {Resolved(UndefV)}
         \cup {Rejected(e) : e \in Reasons}

\* if (userDetails.age < 30) return 500 else return 300
\* (Pricing_inclusive: the variant comparing with <=.)
Pricing_inclusive(age) == IF age <= AgeLimit THEN YoungPremium ELSE StandardPremium
Pricing(age) == IF age < AgeLimit THEN YoungPremium ELSE StandardPremium

\* fp-ts isRight: ma._tag === 'Right'; a TypeError on undefined.
isRight(x) == x.t = "right"

\* getQuotation1 from the point where the lookup call has thrown or its
\* promise has settled with outcome o: <<the returned promise, lines logged>>.
\* A TypeError from reading .age of undefined is caught like any other.
\* (Quotation1After_rethrow: the variant without the try/catch.)
Quotation1After_rethrow(o) ==
    IF o.kind \in {"reject", "throw"} THEN <<RejectWith(o.value.err), 0>>
    ELSE IF o.value.t = "undefined" THEN <<ResolveWith(DefaultPremium), 1>>
    ELSE <<ResolveWith(Pricing(o.value.age)), 0>>
Quotation1After(o) ==
    IF o.kind \in {"reject", "throw"} THEN <<ResolveWith(DefaultPremium), 1>>
    ELSE IF o.value.t = "undefined" THEN <<ResolveWith(DefaultPremium), 1>>
    ELSE <<ResolveWith(Pricing(o.value.age)), 0>>

\* getQuotation2 from the same point: no try/catch, so a failure of the
\* lookup (or of isRight) rejects the returned promise.
\* (Quotation2After_catch: the variant that wraps the await in a try/catch;
\* Quotation2After_leftAsError: the variant that throws on a failure tag.)
Quotation2After_catch(o) ==
    IF o.kind \in {"reject", "throw"} THEN <<ResolveWith(DefaultPremium), 0>>
    ELSE IF o.value.t = "undefined" THEN <<RejectWith("TypeError"), 0>>
    ELSE IF isRight(o.value) THEN <<ResolveWith(Pricing(o.value.age)), 0>>
    ELSE <<ResolveWith(DefaultPremium), 0>>
Quotation2After_leftAsError(o) ==
    IF o.kind \in {"reject", "throw"} THEN <<RejectWith(o.value.err), 0>>
    ELSE IF o.value.t = "undefined" THEN <<RejectWith("TypeError"), 0>>
    ELSE IF isRight(o.value) THEN <<ResolveWith(Pricing(o.value.age)), 0>>
    ELSE <<RejectWith(o.value.err), 0>>
Quotation2After(o) ==
    IF o.kind \in {"reject", "throw"} THEN <<RejectWith(o.value.err), 0>>
    ELSE IF o.value.t = "undefined" THEN <<RejectWith("TypeError"), 0>>
    ELSE IF isRight(o.value) THEN <<ResolveWith(Pricing(o.value.age)), 0>>
    ELSE <<ResolveWith(DefaultPremium), 0>>

\* The rest of workflow variant v once its lookup call has ended with o:
\* what an invocation run alone settles to and logs.
After(v, o) == IF v = 1 THEN Quotation1After(o) ELSE Quotation2After(o)

VARIABLES list, listIn, sqResult, user, greeting, greeting1,
          pc, variant, lookup, calls, arg, result, logged, console

fnVars == <<list, listIn, sqResult, user, greeting, greeting1>>
qVars == <<pc, variant, lookup, calls, arg, result, logged, console>>
vars == <<fnVars, qVars>>

\* No quotation has been requested.
QuotationIdle ==
    /\ pc = [i \in Inv |-> "idle"]
    /\ variant = [i \in Inv |-> 0]
    /\ lookup = [i \in Inv |-> NoPromise]
    /\ calls = [i \in Inv |-> 0]
    /\ arg = [i \in Inv |-> ""]
    /\ result = [i \in Inv |-> Unsettled]
    /\ logged = [i \in Inv |-> 0]
    /\ console = 0

FunctionsIdle ==
    /\ listIn = <<>>
    /\ list = <<>>
    /\ sqResult = NotCalled
    /\ user = Undefined
    /\ greeting = NotCalled
    /\ greeting1 = NotCalled
\* ------------------------------------------------------------ SpecSquare
InitSquare ==
    /\ listIn \in Lists
    /\ list = listIn
    /\ sqResult = NotCalled
    /\ user = Undefined
    /\ greeting = NotCalled
    /\ greeting1 = NotCalled
    /\ QuotationIdle

CallSquare ==
    /\ sqResult = NotCalled
    /\ sqResult' = squareOfSecondElement(list)
    /\ UNCHANGED <<list, listIn, user, greeting, greeting1, qVars>>

NextSquare == CallSquare
SpecSquare == InitSquare /\ [][NextSquare]_vars

\* ------------------------------------------------------------ SpecGreeting
InitGreeting ==
    /\ user \in Users
    /\ greeting = NotCalled
    /\ greeting1 = NotCalled
    /\ listIn = <<>>
    /\ list = <<>>
    /\ sqResult = NotCalled
    /\ QuotationIdle

CallGetGreeting ==
    /\ greeting = NotCalled
    /\ greeting' = getGreeting(user)
    /\ UNCHANGED <<list, listIn, sqResult, user, greeting1, qVars>>

CallGetGreeting1 ==
    /\ greeting1 = NotCalled
    /\ greeting1' = getGreeting1(user)
    /\ UNCHANGED <<list, listIn, sqResult, user, greeting, qVars>>

NextGreeting == CallGetGreeting \/ CallGetGreeting1
SpecGreeting == InitGreeting /\ [][NextGreeting]_vars

\* ------------------------------------------------------------ Spec (quotations)
Init == FunctionsIdle /\ QuotationIdle

\* The value the continuation of invocation i receives from its await.
\* (AwaitedOutcome_shared: the variant keeping the awaited promise in a
\* variable shared by all invocations.)
AwaitedOutcome_shared(i) ==
    lookup[CHOOSE j \in Inv : lookup[j].kind \in {"resolve", "reject"}]
AwaitedOutcome(i) == lookup[i]

\* The argument the workflow passes to the injected lookup.
\* (LookupArg_other: the variant passing another identifier.)
LookupArg_other(e) == CHOOSE x \in Emails : x # e
LookupArg(e) == e

\* Settle the promise an async function returned, with what it logged.
Settle(i, after) ==
    /\ pc' = [pc EXCEPT ![i] = "settled"]
    /\ result' = [result EXCEPT ![i] = after[1]]
    /\ logged' = [logged EXCEPT ![i] = @ + after[2]]
    /\ console' = console + after[2]

\* A call of getQuotationN(e, getUserDetails) runs synchronously up to its
\* await: the lookup is invoked once with the identifier; it either throws
\* (the function ends at once) or returns a promise (the function suspends).
Invoke(i, v, e) ==
    /\ variant' = [variant EXCEPT ![i] = v]
    /\ calls' = [calls EXCEPT ![i] = @ + 1]
    /\ arg' = [arg EXCEPT ![i] = LookupArg(e)]
    /\ \/ /\ lookup' = [lookup EXCEPT ![i] = Pending]
          /\ pc' = [pc EXCEPT ![i] = "awaiting"]
          /\ UNCHANGED <<result, logged, console>>
       \/ \E r \in Reasons :
            /\ lookup' = [lookup EXCEPT ![i] = Threw(r)]
            /\ Settle(i, After(v, Threw(r)))
    /\ UNCHANGED fnVars

CallQuotation1(i) ==
    /\ pc[i] = "idle"
    /\ Invoke(i, 1, userEmail(i))

CallQuotation2(i) ==
    /\ pc[i] = "idle"
    /\ Invoke(i, 2, userEmail(i))

\* The injected lookup's promise settles (the environment's step).
LookupSettle(i) ==
    /\ pc[i] = "awaiting"
    /\ lookup[i].kind = "pending"
    /\ \E o \in SettleOutcomes(variant[i]) : lookup' = [lookup EXCEPT ![i] = o]
    /\ UNCHANGED <<fnVars, pc, variant, calls, arg, result, logged, console>>

\* The continuation after the await runs once the awaited promise has settled.
Resume(i, v) ==
    /\ lookup[i].kind \in {"resolve", "reject"}
    /\ Settle(i, After(v, AwaitedOutcome(i)))
    /\ UNCHANGED <<fnVars, variant, lookup, calls, arg>>

ResumeQuotation1(i) ==
    /\ pc[i] = "awaiting"
    /\ variant[i] = 1
    /\ Resume(i, 1)

ResumeQuotation2(i) ==
    /\ pc[i] = "awaiting"
    /\ variant[i] = 2
    /\ Resume(i, 2)

Next ==
    \E i \in Inv :
        \/ CallQuotation1(i)
        \/ CallQuotation2(i)
        \/ LookupSettle(i)
        \/ ResumeQuotation1(i)
        \/ ResumeQuotation2(i)

Spec == Init /\ [][Next]_vars

\* The JavaScript job queue runs every continuation whose promise has settled.
FairSpec ==
    /\ Spec
    /\ \A i \in Inv : WF_vars(ResumeQuotation1(i) \/ ResumeQuotation2(i))

\* ================================================================ properties
SettledKinds == {"resolve", "reject", "throw"}
Called(i) == pc[i] # "idle"
Done(i, v) == pc[i] = "settled" /\ variant[i] = v
LookupFailed(i) == lookup[i].kind \in {"reject", "throw"}
LookupGave(i, t) == lookup[i].kind = "resolve" /\ lookup[i].value.t = t

\* C1: squareOfSecondElement never fails and leaves the list as it was; it
\* returns 0 for a list of fewer than 2 elements and otherwise the square of
\* the element at index 1, zero and negative elements included.
C1_SquareOfSecond ==
    sqResult # NotCalled =>
        /\ sqResult.kind = "return"
        /\ list = listIn
        /\ Len(listIn) < 2 => sqResult.value = Num(0)
        /\ Len(listIn) >= 2 => sqResult.value = Num(listIn[2] * listIn[2])

C1_Witness ==
    /\ sqResult # NotCalled
    /\ Len(listIn) >= 2
    /\ listIn[2] < 0
    /\ sqResult.value.v > 0

\* C2: for every user input (name a string, missing, null, of another type,
\* or the user itself null/undefined) getGreeting and getGreeting1 end the
\* same way, returning identical strings.
C2_GreetingsEquivalent ==
    (greeting # NotCalled /\ greeting1 # NotCalled) =>
        /\ greeting.kind = "return"
        /\ greeting1.kind = "return"
        /\ greeting1.value = greeting.value

Whitespace == {" ", "\t", "\n"}

\* The first whitespace-delimited token of s: leading whitespace skipped,
\* then everything up to the next whitespace character.
RECURSIVE DropLeading(_)
DropLeading(s) ==
    IF s # <<>> /\ Head(s) \in Whitespace THEN DropLeading(Tail(s)) ELSE s

RECURSIVE TakeToken(_)
TakeToken(s) ==
    IF s = <<>> \/ Head(s) \in Whitespace THEN <<>>
    ELSE <<Head(s)>> \o TakeToken(Tail(s))

FirstToken(s) == TakeToken(DropLeading(s))

HasStringName(u) == u.t = "object" /\ u.has /\ u.name.t = "string"
HasNoName(u) == u.t = "object" /\ (~u.has \/ isNil(u.name))

\* C3 as stated: with a name present both functions return "Hi " followed by
\* the first whitespace-delimited token of the name (leading or repeated
\* spaces, tabs and newlines all being separators), and "Hi " with no name.
C3_FirstWhitespaceToken ==
    /\ HasStringName(user) =>
        /\ greeting # NotCalled => greeting = Return(Str(Hi \o FirstToken(user.name.v)))
        /\ greeting1 # NotCalled => greeting1 = Return(Str(Hi \o FirstToken(user.name.v)))
    /\ HasNoName(user) =>
        /\ greeting # NotCalled => greeting = Return(Str(Hi))
        /\ greeting1 # NotCalled => greeting1 = Return(Str(Hi))

\* The part of s before its first space character: all of s when it has none.
BeforeFirstSpace(s) ==
    LET n == CHOOSE k \in 0..Len(s) :
                 /\ \A j \in 1..k : s[j] # " "
                 /\ k = Len(s) \/ s[k + 1] = " "
    IN  SubSeq(s, 1, n)

\* C3 as amended: for a user record whose name is a string or absent, both
\* functions return "Hi " followed by the part of the name before its first
\* space character (the whole name when it has no space, nothing when it
\* starts with one; tabs and newlines do not separate), and "Hi " with no name.
C3_PrefixBeforeFirstSpace ==
    /\ HasStringName(user) =>
        /\ greeting # NotCalled =>
               greeting = Return(Str(<<"H", "i", " ">> \o BeforeFirstSpace(user.name.v)))
        /\ greeting1 # NotCalled =>
               greeting1 = Return(Str(<<"H", "i", " ">> \o BeforeFirstSpace(user.name.v)))
    /\ HasNoName(user) =>
        /\ greeting # NotCalled => greeting = Return(Str(<<"H", "i", " ">>))
        /\ greeting1 # NotCalled => greeting1 = Return(Str(<<"H", "i", " ">>))

C3_Witness ==
    /\ HasStringName(user)
    /\ user.name.v = <<"J", " ", "W">>
    /\ greeting = Return(Str(<<"H", "i", " ", "J">>))
    /\ greeting1 = greeting

\* C4: when the lookup of getQuotation1 resolves to user details with an age
\* >= 0, the workflow resolves to 500 if age < 30 and to 300 otherwise (30
\* itself gives 300, 29 gives 500), and to nothing else.
C4_Quotation1Pricing ==
    \A i \in Inv :
        (Done(i, 1) /\ LookupGave(i, "details") /\ lookup[i].value.age >= 0) =>
            /\ result[i].kind = "resolve"
            /\ lookup[i].value.age < 30 => result[i].premium = <<500>>
            /\ lookup[i].value.age >= 30 => result[i].premium = <<300>>

C4_Witness ==
    \E i, j \in Inv :
        /\ Done(i, 1) /\ LookupGave(i, "details") /\ lookup[i].value.age = 30
        /\ result[i].premium = <<300>>
        /\ Done(j, 1) /\ LookupGave(j, "details") /\ lookup[j].value.age = 29
        /\ result[j].premium = <<500>>

RECURSIVE SumLogged(_)
SumLogged(n) == IF n = 0 THEN 0 ELSE logged[n] + SumLogged(n - 1)

\* C5: getQuotation1 never rejects; when the lookup rejects or throws it logs
\* exactly once and resolves to 0, whatever the cause; when the lookup
\* resolves to user details it logs nothing.
C5_Quotation1Recovers ==
    /\ console = SumLogged(NumInv)
    /\ \A i \in Inv :
        /\ variant[i] = 1 => result[i].kind # "reject"
        /\ ~Done(i, 1) => logged[i] = 0
        /\ Done(i, 1) =>
            /\ result[i].kind = "resolve"
            /\ LookupFailed(i) => (result[i].premium = <<0>> /\ logged[i] = 1)
            /\ LookupGave(i, "details") => logged[i] = 0

C5_Witness ==
    \E i, j \in Inv :
        /\ Done(i, 1) /\ lookup[i] = Rejected("Timeout Error")
        /\ Done(j, 1) /\ lookup[j] = Threw("SERVICE-NOT-AVAILABLE")
        /\ result[i] = result[j]
        /\ result[i].premium = <<0>>
        /\ console = 2

\* Lookup outcomes of the two variants that correspond: the same details
\* resolved plainly and as a success, or a rejection and a failure tag.
Corresponding(i, j) ==
    \/ /\ LookupGave(i, "details") /\ LookupGave(j, "right")
       /\ lookup[i].value.age = lookup[j].value.age
    \/ lookup[i].kind = "reject" /\ LookupGave(j, "left")

\* C6: when the lookup of getQuotation2 resolves to a LookupResult, the
\* workflow resolves to 500 for a success with age < 30, to 300 for a success
\* with age >= 30 and to 0 for a failure, whatever its reason; for
\* corresponding lookup outcomes it gives the premium getQuotation1 gives.
C6_Quotation2Pricing ==
    /\ \A i \in Inv :
        Done(i, 2) =>
            /\ LookupGave(i, "right") =>
                /\ result[i].kind = "resolve"
                /\ lookup[i].value.age < 30 => result[i].premium = <<500>>
                /\ lookup[i].value.age >= 30 => result[i].premium = <<300>>
            /\ LookupGave(i, "left") =>
                (result[i].kind = "resolve" /\ result[i].premium = <<0>>)
    /\ \A i, j \in Inv :
        (Done(i, 1) /\ Done(j, 2) /\ Corresponding(i, j)) => result[j] = result[i]

C6_Witness ==
    \E i, j \in Inv :
        /\ Done(i, 1) /\ lookup[i].kind = "reject"
        /\ Done(j, 2) /\ lookup[j] = Resolved(LeftV("USER-NOT-FOUND"))
        /\ result[j].premium = <<0>>

\* C7: no exported function surfaces a fault: squareOfSecondElement and both
\* greeting functions return without throwing, and both quotation workflows
\* resolve rather than reject, whatever the input or the lookup does.
C7_NoFaultSurfaces ==
    /\ sqResult.kind # "throw"
    /\ greeting.kind # "throw"
    /\ greeting1.kind # "throw"
    /\ \A i \in Inv :
        /\ result[i].kind # "reject"
        /\ (pc[i] = "settled" /\ LookupFailed(i)) => result[i].premium = <<0>>

\* C8 (safety part): the lookup is invoked exactly once per execution, with
\* the caller's identifier, and never again; the workflow is settled only
\* when its lookup call has settled.
C8_OneLookup ==
    \A i \in Inv :
        /\ calls[i] <= 1
        /\ Called(i) => (calls[i] = 1 /\ arg[i] = userEmail(i))
        /\ ~Called(i) => calls[i] = 0
        /\ pc[i] = "settled" <=> result[i].kind # "pending"
        /\ result[i].kind # "pending" => lookup[i].kind \in SettledKinds

\* C8: in every execution of either workflow the lookup is invoked exactly
\* once with the caller's identifier and never retried; the workflow settles
\* only after the lookup has (so it stays unsettled for as long as the lookup
\* is pending), and settles eventually once the lookup has settled.
C8_SettlesWithLookup ==
    /\ []C8_OneLookup
    /\ [](\A i \in Inv : lookup[i].kind = "pending" => result[i].kind = "pending")
    /\ \A i \in Inv : (lookup[i].kind \in SettledKinds) ~> (pc[i] = "settled")

C8_Witness ==
    \E i, j \in Inv :
        /\ Done(i, 1) /\ calls[i] = 1 /\ arg[i] = "john.w@gmail.com"
        /\ lookup[i].kind = "reject"
        /\ variant[j] = 2 /\ lookup[j].kind = "pending" /\ calls[j] = 1
        /\ arg[j] = "jane.d@gmail.com"

\* A step touches the state of one invocation only.
OneInvocationSteps ==
    \E i \in Inv : \A j \in Inv \ {i} :
        /\ pc'[j] = pc[j]
        /\ variant'[j] = variant[j]
        /\ lookup'[j] = lookup[j]
        /\ calls'[j] = calls[j]
        /\ arg'[j] = arg[j]
        /\ result'[j] = result[j]
        /\ logged'[j] = logged[j]

C10_Quotation2Propagates ==
    \A i \in Inv :
        (pc[i] = "settled" /\ LookupFailed(i)) =>
            /\ variant[i] = 2 =>
                /\ result[i].kind = "reject"
                /\ result[i].err = lookup[i].value.err
                /\ result[i].premium = <<>>
                /\ logged[i] = 0
            /\ variant[i] = 1 =>
                (result[i].kind = "resolve" /\ result[i].premium = <<0>>)

C10_Witness ==
    \E i, j \in Inv :
        /\ Done(i, 2) /\ lookup[i] = Rejected("Timeout Error")
        /\ result[i].kind = "reject" /\ result[i].err = "Timeout Error"
        /\ Done(j, 1) /\ lookup[j] = Rejected("Timeout Error")
        /\ result[j].premium = <<0>>

====
